---- MODULE Spec2Model ----
(***************************************************************************)
(* Model of server.py: a static file server built on http.server's         *)
(* HTTPServer and SimpleHTTPRequestHandler, whose handler class overrides  *)
(* end_headers to add three fixed headers, and whose top level prints      *)
(* three startup lines, binds localhost:8000, runs serve_forever and       *)
(* turns a KeyboardInterrupt raised by serve_forever into a message and    *)
(* sys.exit(0).                                                            *)
(*                                                                         *)
(* server.py inherits everything but end_headers and the top level from    *)
(* CPython's http.server and socketserver (3.11); the inherited methods    *)
(* are modelled from that library's code, under the library's names.       *)
(***************************************************************************)
EXTENDS Integers, Sequences, FiniteSets, TLC

(* ------------------------------ bounds -------------------------------- *)

\* Connections a client opens during one run of the process.
MaxConns == 2

\* Interrupt signals (SIGINT) delivered to the process during one run.
MaxInterrupts == 2

\* Error exchanges counted by the history counter nerr.
MaxErrCount == 1

Conns == 1..MaxConns

(* ------------------------- program constants -------------------------- *)

\* server.py line 11
port == 8000

\* The address of HTTPServer(('localhost', port), ...), and the directory a
\* handler serves: os.getcwd(), here the directory /srv.
Config == [host |-> "localhost", port |-> port, directory |-> <<"srv">>]

\* The three send_header calls of CORSRequestHandler.end_headers, in order.
FixedHeaders ==
    << [t |-> "hdr", k |-> "Access-Control-Allow-Origin",  v |-> "*"],
       [t |-> "hdr", k |-> "Access-Control-Allow-Methods", v |-> "GET"],
       [t |-> "hdr", k |-> "Cache-Control", v |-> "no-store, no-cache, must-revalidate"] >>

\* The lines the top level prints.
StartupLines == << "started", "hint", "stop" >>
ShutdownLine == "shutdown"

(* --------------------------- the file system -------------------------- *)

\* Absolute paths are sequences of names.  /srv is the working directory;
\* /etc/passwd lies outside it.  /srv/secret.txt cannot be opened.
Nodes ==
    { [p |-> <<>>,                        kind |-> "dir",  readable |-> TRUE ],
      [p |-> <<"srv">>,                   kind |-> "dir",  readable |-> TRUE ],
      [p |-> <<"srv","app.js">>,          kind |-> "file", readable |-> TRUE ],
      [p |-> <<"srv","secret.txt">>,      kind |-> "file", readable |-> FALSE],
      [p |-> <<"srv","demo">>,            kind |-> "dir",  readable |-> TRUE ],
      [p |-> <<"srv","demo","index.html">>, kind |-> "file", readable |-> TRUE ],
      [p |-> <<"etc">>,                   kind |-> "dir",  readable |-> TRUE ],
      [p |-> <<"etc","passwd">>,          kind |-> "file", readable |-> TRUE ] }

\* The name of a path, used as the contents of the file stored there.
RECURSIVE PathStr(_)
PathStr(p) == IF p = <<>> THEN "" ELSE PathStr(SubSeq(p, 1, Len(p) - 1)) \o "/" \o p[Len(p)]

Front(s) == SubSeq(s, 1, Len(s) - 1)

\* The kernel's resolution of an absolute path: "." stays, ".." goes up (and
\* stays at the root), a name below something that is no directory fails.
RECURSIVE KernelWalk(_, _)
KernelWalk(at, names) ==
    IF at = <<"ENOENT">> \/ names = <<>> THEN at
    ELSE LET w == Head(names)
             next == IF w = "." THEN at
                     ELSE IF w = ".." THEN (IF at = <<>> THEN at ELSE Front(at))
                     ELSE Append(at, w)
         IN  IF \E n \in Nodes : n.p = at /\ n.kind = "dir"
                THEN KernelWalk(next, Tail(names))
                ELSE <<"ENOENT">>

Lookup(abs) ==
    LET at == KernelWalk(<<>>, abs)
    IN  IF \E n \in Nodes : n.p = at
           THEN CHOOSE n \in Nodes : n.p = at
           ELSE [p |-> <<"ENOENT">>, kind |-> "none", readable |-> FALSE]

\* A local filename: the names below the root, and whether it ends in "/".
isdir(f) == Lookup(f.abs).kind = "dir"

\* A name with a trailing slash is a file for no one.
isfile(f) == Lookup(f.abs).kind = "file" /\ ~f.slash

\* open(path, 'rb') succeeds
canOpen(f) == isfile(f) /\ Lookup(f.abs).readable

InsideRoot(p) ==
    Len(p) >= Len(Config.directory) /\ SubSeq(p, 1, Len(Config.directory)) = Config.directory

(* ------------------------------ requests ------------------------------ *)

\* A request line "<method> <path> <version>" (version "" when the line has
\* two words only) and whether the request carries an If-Modified-Since
\* header that is not older than the file (and no If-None-Match).
Methods  == { "GET", "HEAD", "POST" }
Versions == { "", "HTTP/1.1", "FOO/1.1", "HTTP/2.0" }

\* URL paths: the segments between slashes, and whether the path ends in "/".
Paths ==
    { [segs |-> <<>>,                           slash |-> TRUE ],   \* /
      [segs |-> <<"app.js">>,                   slash |-> FALSE],   \* /app.js
      [segs |-> <<"app.js">>,                   slash |-> TRUE ],   \* /app.js/
      [segs |-> <<"demo">>,                     slash |-> FALSE],   \* /demo
      [segs |-> <<"demo">>,                     slash |-> TRUE ],   \* /demo/
      [segs |-> <<"does-not-exist.xyz">>,       slash |-> FALSE],   \* /does-not-exist.xyz
      [segs |-> <<"secret.txt">>,               slash |-> FALSE],   \* /secret.txt
      [segs |-> <<"..", "..", "etc", "passwd">>, slash |-> FALSE],  \* /../../etc/passwd
      [segs |-> <<"demo", "..", "app.js">>,     slash |-> FALSE] }  \* /demo/../app.js

Requests == [method : Methods, path : Paths, version : Versions, ims : BOOLEAN]

NoRequest == [method |-> "", path |-> [segs |-> <<>>, slash |-> FALSE], version |-> "", ims |-> FALSE]

HasTraversal(path) == \E i \in 1..Len(path.segs) : path.segs[i] = ".."

(* ------------------- BaseHTTPRequestHandler (inherited) ---------------- *)

\* A handler instance: what parse_request stored, the headers buffer, what
\* was written to the connection, and how often end_headers ran.
NewHandler ==
    [request_version |-> "", command |-> "", hbuf |-> <<>>, wire |-> <<>>, ends |-> 0]

Status(code) == [t |-> "status", k |-> code, v |-> ""]
Hdr(k, v)    == [t |-> "hdr", k |-> k, v |-> v]
EndOfHeaders == [t |-> "end", k |-> "", v |-> ""]
Body(k, v)   == [t |-> "body", k |-> k, v |-> v]

send_response_only(h, code) ==
    IF h.request_version # "HTTP/0.9"
       THEN [h EXCEPT !.hbuf = Append(@, Status(code))]
       ELSE h

send_header(h, k, v) ==
    IF h.request_version # "HTTP/0.9"
       THEN [h EXCEPT !.hbuf = Append(@, Hdr(k, v))]
       ELSE h

flush_headers(h) == [h EXCEPT !.wire = @ \o h.hbuf, !.hbuf = <<>>]

\* BaseHTTPRequestHandler.end_headers
super_end_headers(h) ==
    IF h.request_version # "HTTP/0.9"
       THEN flush_headers([h EXCEPT !.hbuf = Append(@, EndOfHeaders)])
       ELSE h

\* A plausible slip: the base method runs first, the headers are sent after.
end_headers_late(h) ==
    LET h1 == super_end_headers(h)
        h2 == send_header(h1, FixedHeaders[1].k, FixedHeaders[1].v)
        h3 == send_header(h2, FixedHeaders[2].k, FixedHeaders[2].v)
        h4 == send_header(h3, FixedHeaders[3].k, FixedHeaders[3].v)
    IN  [h4 EXCEPT !.ends = @ + 1]

\* CORSRequestHandler.end_headers
end_headers(h) ==
    LET h1 == send_header(h,  FixedHeaders[1].k, FixedHeaders[1].v)
        h2 == send_header(h1, FixedHeaders[2].k, FixedHeaders[2].v)
        h3 == send_header(h2, FixedHeaders[3].k, FixedHeaders[3].v)
    IN  [super_end_headers(h3) EXCEPT !.ends = @ + 1]

send_response(h, code) ==
    send_header(send_header(send_response_only(h, code),
                            "Server", "SimpleHTTP"), "Date", "now")

\* Every code send_error is called with here is >= 200 and none of 204, 205,
\* 304, so the error page is always built; it is written unless HEAD.
send_error(h, code) ==
    LET h1 == send_response(h, code)
        h2 == send_header(h1, "Connection", "close")
        h3 == send_header(h2, "Content-Type", "text/html;charset=utf-8")
        h4 == send_header(h3, "Content-Length", "error page")
        h5 == end_headers(h4)
    IN  IF h.command # "HEAD"
           THEN [h5 EXCEPT !.wire = Append(@, Body("error", code))]
           ELSE h5

\* The versions parse_request accepts as HTTP/<major>.<minor>.
VersionNumber(version) ==
    CASE version = "HTTP/1.0" -> <<1, 0>>
      [] version = "HTTP/1.1" -> <<1, 1>>
      [] version = "HTTP/2.0" -> <<2, 0>>
      [] OTHER                -> <<>>

\* parse_request: [ok, h].  request_version stays "HTTP/0.9", the default,
\* until a version has been accepted.
parse_request(h, r) ==
    LET h0 == [h EXCEPT !.command = "None", !.request_version = "HTTP/0.9"]
    IN  IF r.version # ""
           THEN IF VersionNumber(r.version) = <<>>
                   THEN [ok |-> FALSE, h |-> send_error(h0, "400")]
                ELSE IF VersionNumber(r.version)[1] >= 2
                   THEN [ok |-> FALSE, h |-> send_error(h0, "505")]
                ELSE [ok |-> TRUE,
                      h  |-> [h0 EXCEPT !.request_version = r.version,
                                        !.command = r.method]]
           ELSE IF r.method # "GET"
                   THEN [ok |-> FALSE, h |-> send_error(h0, "400")]
                   ELSE [ok |-> TRUE, h |-> [h0 EXCEPT !.command = r.method]]

(* ------------------ SimpleHTTPRequestHandler (inherited) --------------- *)

\* posixpath.normpath of an absolute path: "." is dropped, ".." removes the
\* component before it, and is dropped when there is none.
RECURSIVE normpath(_, _)
normpath(done, segs) ==
    IF segs = <<>> THEN done
    ELSE LET w == Head(segs)
         IN  IF w = "." THEN normpath(done, Tail(segs))
             ELSE IF w = ".."
                THEN normpath(IF done = <<>> THEN done ELSE Front(done), Tail(segs))
             ELSE normpath(Append(done, w), Tail(segs))

\* The loop of translate_path: os.curdir and os.pardir are ignored.
SimpleWords(words) == SelectSeq(words, LAMBDA w : w \notin { ".", ".." })

\* A plausible slip: the request's segments are joined to the directory as
\* they are, and the kernel resolves "..".
translate_path_raw(path) ==
    [abs |-> Config.directory \o path.segs, slash |-> path.slash]

translate_path(path) ==
    [abs   |-> Config.directory \o SimpleWords(normpath(<<>>, path.segs)),
     slash |-> path.slash]

guess_type(f) ==
    LET name == IF f.abs = <<>> THEN "" ELSE f.abs[Len(f.abs)]
    IN  CASE name = "index.html" -> "text/html"
          [] name = "app.js"     -> "text/javascript"
          [] OTHER               -> "application/octet-stream"

\* The value of a send_head or list_directory call: the handler after it and
\* the file object it returns (NoFile for None).
NoFile == Body("none", "")

list_directory(h, f) ==
    LET h1 == send_response(h, "200")
        h2 == send_header(h1, "Content-type", "text/html; charset=utf-8")
        h3 == send_header(h2, "Content-Length", "listing")
    IN  [h |-> end_headers(h3), f |-> Body("listing", PathStr(Lookup(f.abs).p))]

\* The loop over "index.html", "index.htm" of send_head: the index file of
\* directory f, or f itself when it has none.
IndexOf(f) ==
    IF isfile([abs |-> Append(f.abs, "index.html"), slash |-> FALSE])
       THEN [abs |-> Append(f.abs, "index.html"), slash |-> FALSE]
    ELSE IF isfile([abs |-> Append(f.abs, "index.htm"), slash |-> FALSE])
       THEN [abs |-> Append(f.abs, "index.htm"), slash |-> FALSE]
    ELSE f

\* The part of send_head after the directory test, for local filename f.
send_file(h, f, ims) ==
    IF f.slash
       THEN [h |-> send_error(h, "404"), f |-> NoFile]
    ELSE IF ~canOpen(f)
       THEN [h |-> send_error(h, "404"), f |-> NoFile]
    ELSE IF ims
       THEN [h |-> end_headers(send_response(h, "304")), f |-> NoFile]
    ELSE LET h1 == send_response(h, "200")
             h2 == send_header(h1, "Content-type", guess_type(f))
             h3 == send_header(h2, "Content-Length", "file size")
             h4 == send_header(h3, "Last-Modified", "mtime")
         IN  [h |-> end_headers(h4), f |-> Body("file", PathStr(Lookup(f.abs).p))]

\* A plausible slip: a directory is answered with its index file, or its
\* listing, whether or not the URL ends in "/".
send_head_noredirect(h, r) ==
    LET f == translate_path(r.path)
    IN  IF isdir(f)
           THEN IF IndexOf(f) # f THEN send_file(h, IndexOf(f), r.ims)
                                  ELSE list_directory(h, f)
           ELSE send_file(h, f, r.ims)

send_head(h, r) ==
    LET f == translate_path(r.path)
    IN  IF isdir(f)
           THEN IF ~r.path.slash
                   THEN LET h1 == send_response(h, "301")
                            h2 == send_header(h1, "Location", "path + /")
                            h3 == send_header(h2, "Content-Length", "0")
                        IN  [h |-> end_headers(h3), f |-> NoFile]
                ELSE IF IndexOf(f) # f
                   THEN send_file(h, IndexOf(f), r.ims)
                   ELSE list_directory(h, f)
           ELSE send_file(h, f, r.ims)

\* copyfile(f, self.wfile)
do_GET(h, r) ==
    LET s == send_head(h, r)
    IN  IF s.f # NoFile THEN [s.h EXCEPT !.wire = Append(@, s.f)] ELSE s.h

do_HEAD(h, r) == send_head(h, r).h

\* handle_one_request for a request line that was received.
handle_one_request(h, r) ==
    LET p == parse_request(h, r)
    IN  IF ~p.ok THEN p.h
        ELSE IF p.h.command = "GET"  THEN do_GET(p.h, r)
        ELSE IF p.h.command = "HEAD" THEN do_HEAD(p.h, r)
        ELSE send_error(p.h, "501")

\* What a request is answered with by a handler that has handled nothing.
Answer(r) == handle_one_request(NewHandler, r).wire

(* ------------------------------- state -------------------------------- *)

VARIABLES
    pc,             \* where the top level of server.py is
    stdout,         \* the lines printed so far
    sock,           \* the listening socket: "none", "bound", "listening", "closed"
    server_address, \* the address the socket was bound to, <<>> before
    exitStatus,     \* the process's exit status, -1 while it runs
    pending,        \* a SIGINT was delivered and KeyboardInterrupt is not yet raised
    nsig,           \* history: interrupts delivered
    raisedAt,       \* history: the pc at which each KeyboardInterrupt was raised
    conn,           \* per connection: its state, its handler and its request
    backlog,        \* connections the kernel holds for accept(), oldest first
    loop,           \* serve_forever: "select", or "process_request" while one runs
    nerr            \* history: exchanges that ended in an error, up to MaxErrCount

vars == << pc, stdout, sock, server_address, exitStatus, pending, nsig, raisedAt,
           conn, backlog, loop, nerr >>

NoConn == [st |-> "unused", stage |-> "none", req |-> NoRequest, h |-> NewHandler]

ClosedConn == [NoConn EXCEPT !.st = "closed"]

Init ==
    /\ pc = "print1"
    /\ stdout = <<>>
    /\ sock = "none"
    /\ server_address = <<>>
    /\ exitStatus = -1
    /\ pending = FALSE
    /\ nsig = 0
    /\ raisedAt = <<>>
    /\ conn = [c \in Conns |-> NoConn]
    /\ backlog = <<>>
    /\ loop = "select"
    /\ nerr = 0

(* ------------------------- the top level: startup ---------------------- *)

\* The statement after each of the three print calls.
AfterPrint(at) ==
    CASE at = "print1" -> "print2"
      [] at = "print2" -> "print3"
      [] at = "print3" -> "bind"

\* print(...) of line 12, 13 or 14
PrintStartup(i) ==
    /\ pc = << "print1", "print2", "print3" >>[i]
    /\ ~pending
    /\ stdout' = Append(stdout, StartupLines[i])
    /\ pc' = AfterPrint(pc)
    /\ UNCHANGED << sock, server_address, exitStatus, pending, nsig, raisedAt,
                    conn, backlog, loop, nerr >>

\* HTTPServer(('localhost', port), CORSRequestHandler): server_bind succeeds
BindOk ==
    /\ pc = "bind"
    /\ ~pending
    /\ sock' = "bound"
    /\ server_address' = << Config.host, Config.port >>
    /\ pc' = "activate"
    /\ UNCHANGED << stdout, exitStatus, pending, nsig, raisedAt, conn, backlog, loop, nerr >>

\* server_bind raises OSError (the port is in use): TCPServer.__init__ closes
\* the socket, nothing catches the error, the process ends with status 1.
BindFail ==
    /\ pc = "bind"
    /\ ~pending
    /\ sock' = "closed"
    /\ pc' = "exited"
    /\ exitStatus' = 1
    /\ UNCHANGED << stdout, server_address, pending, nsig, raisedAt, conn, backlog, loop, nerr >>

\* server_activate: listen(); the constructor returns and serve_forever starts
Activate ==
    /\ pc = "activate"
    /\ ~pending
    /\ sock' = "listening"
    /\ pc' = "serve"
    /\ loop' = "select"
    /\ UNCHANGED << stdout, server_address, exitStatus, pending, nsig, raisedAt,
                    conn, backlog, nerr >>

(* --------------------- serve_forever and the handler ------------------- *)

\* A client connects: the kernel completes the handshake and queues the
\* connection, whatever the process is doing.
Connect(c) ==
    /\ pc \in { "serve", "except_print", "except_exit" }
    /\ sock = "listening"
    /\ conn[c].st = "unused"
    /\ \A d \in Conns : d < c => conn[d].st # "unused"
    /\ conn' = [conn EXCEPT ![c].st = "queued"]
    /\ backlog' = Append(backlog, c)
    /\ UNCHANGED << pc, stdout, sock, server_address, exitStatus, pending, nsig,
                    raisedAt, loop, nerr >>

\* A threading server: process_request starts a thread and returns to the
\* loop, which selects again while the handler runs.
process_request_threaded == "select"

\* Where the loop is once _handle_request_noblock has called process_request:
\* inside it (finish_request, then shutdown_request) until the handler is done.
process_request == "process_request"

\* select() reports the socket readable; get_request() accepts the oldest
\* queued connection and finish_request instantiates the handler class, whose
\* constructor starts reading the request line.
Accept ==
    /\ pc = "serve"
    /\ loop = "select"
    /\ ~pending
    /\ backlog # <<>>
    /\ conn' = [conn EXCEPT ![Head(backlog)] =
                   [st |-> "handling", stage |-> "reading", req |-> NoRequest, h |-> NewHandler]]
    /\ backlog' = Tail(backlog)
    /\ loop' = process_request
    /\ UNCHANGED << pc, stdout, sock, server_address, exitStatus, pending, nsig,
                    raisedAt, nerr >>

\* The request line arrives and handle_one_request answers it.
HandleRequest(c, r) ==
    /\ pc = "serve"
    /\ ~pending
    /\ conn[c].st = "handling"
    /\ conn[c].stage = "reading"
    /\ conn' = [conn EXCEPT ![c].stage = "handled",
                            ![c].req = r,
                            ![c].h = handle_one_request(conn[c].h, r)]
    /\ UNCHANGED << pc, stdout, sock, server_address, exitStatus, pending, nsig,
                    raisedAt, backlog, loop, nerr >>

\* The client closes without sending: raw_requestline is empty and
\* handle_one_request returns without an answer.
HandleEmpty(c) ==
    /\ pc = "serve"
    /\ ~pending
    /\ conn[c].st = "handling"
    /\ conn[c].stage = "reading"
    /\ conn' = [conn EXCEPT ![c].stage = "handled"]
    /\ UNCHANGED << pc, stdout, sock, server_address, exitStatus, pending, nsig,
                    raisedAt, backlog, loop, nerr >>

\* A response counts as an error when its status, or the error page sent
\* without a status, is 4xx or 5xx.
ErrorCodes == { "400", "404", "501", "505" }

IsErrorResponse(wire) ==
    \E i \in 1..Len(wire) : wire[i].t \in { "status", "body" } /\ wire[i].k \in ErrorCodes

Bump(n) == IF n < MaxErrCount THEN n + 1 ELSE n

\* A handler exception that is not caught ends the process with a traceback.
handler_exception_fatal == [pc |-> "exited", sock |-> "closed", exitStatus |-> 1]

\* _handle_request_noblock: "except Exception: handle_error(); shutdown_request()";
\* the loop goes on.
handler_exception == [pc |-> "serve", sock |-> sock, exitStatus |-> exitStatus]

\* The connection is reset while the handler reads: the handler raises
\* ConnectionResetError, an Exception, out of process_request.
HandleException(c) ==
    /\ pc = "serve"
    /\ ~pending
    /\ conn[c].st = "handling"
    /\ conn[c].stage = "reading"
    /\ conn' = [conn EXCEPT ![c] = ClosedConn]
    /\ loop' = "select"
    /\ nerr' = Bump(nerr)
    /\ pc' = handler_exception.pc
    /\ sock' = handler_exception.sock
    /\ exitStatus' = handler_exception.exitStatus
    /\ UNCHANGED << stdout, server_address, pending, nsig, raisedAt, backlog >>

\* The handler is done: finish(), then shutdown_request closes the
\* connection and process_request returns to the loop.
ShutdownRequest(c) ==
    /\ pc = "serve"
    /\ ~pending
    /\ conn[c].st = "handling"
    /\ conn[c].stage = "handled"
    /\ conn' = [conn EXCEPT ![c] = ClosedConn]
    /\ loop' = "select"
    /\ nerr' = IF IsErrorResponse(conn[c].h.wire) THEN Bump(nerr) ELSE nerr
    /\ UNCHANGED << pc, stdout, sock, server_address, exitStatus, pending, nsig,
                    raisedAt, backlog >>

(* ------------------------------ interrupts ----------------------------- *)

\* SIGINT arrives; Python raises KeyboardInterrupt in the main thread before
\* it runs the next statement.
Deliver ==
    /\ pc # "exited"
    /\ nsig < MaxInterrupts
    /\ pending' = TRUE
    /\ nsig' = nsig + 1
    /\ UNCHANGED << pc, stdout, sock, server_address, exitStatus, raisedAt,
                    conn, backlog, loop, nerr >>

\* A try block that also covers the construction of the server.
InTryWide(at) == at \in { "bind", "activate", "serve" }

\* A top level without the except clause.
InTryNever(at) == FALSE

\* The try block of lines 17 to 19 covers httpd.serve_forever() only.
InTry(at) == at = "serve"

\* The exit of a process that ends: the kernel closes its sockets.
ProcessEnds(status) ==
    /\ pc' = "exited"
    /\ exitStatus' = status
    /\ sock' = IF sock = "none" THEN "none" ELSE "closed"
    /\ conn' = [c \in Conns |-> IF conn[c].st \in { "queued", "handling" } THEN ClosedConn ELSE conn[c]]
    /\ backlog' = <<>>

\* KeyboardInterrupt is raised where the top level is.  Inside the try block
\* it leaves serve_forever (through "except: shutdown_request(); raise" when a
\* request is being handled) and reaches the except clause.  Anywhere else
\* nothing catches it and the process dies of it (status 130).
Raise ==
    /\ pending
    /\ pc # "exited"
    /\ pending' = FALSE
    /\ raisedAt' = Append(raisedAt, pc)
    /\ IF InTry(pc)
          THEN /\ pc' = "except_print"
               /\ conn' = [c \in Conns |-> IF conn[c].st = "handling" THEN ClosedConn ELSE conn[c]]
               /\ loop' = "select"
               /\ UNCHANGED << sock, exitStatus, backlog >>
          ELSE /\ ProcessEnds(130)
               /\ UNCHANGED loop
    /\ UNCHANGED << stdout, server_address, nsig, nerr >>

\* print("\nServeur arrete") of line 20
PrintShutdown ==
    /\ pc = "except_print"
    /\ ~pending
    /\ stdout' = Append(stdout, ShutdownLine)
    /\ pc' = "except_exit"
    /\ UNCHANGED << sock, server_address, exitStatus, pending, nsig, raisedAt,
                    conn, backlog, loop, nerr >>

\* sys.exit(0) of line 21
SysExit ==
    /\ pc = "except_exit"
    /\ ~pending
    /\ ProcessEnds(0)
    /\ UNCHANGED << stdout, server_address, pending, nsig, raisedAt, loop, nerr >>

(* ---------------------------- specifications --------------------------- *)

Next ==
    \/ \E i \in 1..3 : PrintStartup(i)
    \/ BindOk
    \/ BindFail
    \/ Activate
    \/ \E c \in Conns : Connect(c)
    \/ Accept
    \/ \E c \in Conns, r \in Requests : HandleRequest(c, r)
    \/ \E c \in Conns : HandleEmpty(c)
    \/ \E c \in Conns : HandleException(c)
    \/ \E c \in Conns : ShutdownRequest(c)
    \/ Deliver
    \/ Raise
    \/ PrintShutdown
    \/ SysExit

Spec == Init /\ [][Next]_vars

\* The interpreter keeps running: a pending KeyboardInterrupt is raised, and
\* the except clause runs to its end.
SpecLive == Spec /\ WF_vars(Raise) /\ WF_vars(PrintShutdown) /\ WF_vars(SysExit)

(* ------------------------- reading a response ------------------------- *)

Handled(c) == conn[c].st = "handling" /\ conn[c].stage = "handled"

\* Connection c has been answered: something was written to it.
Responded(c) == Handled(c) /\ conn[c].h.wire # <<>>

StatusOf(wire) == IF wire # <<>> /\ wire[1].t = "status" THEN wire[1].k ELSE "none"

BodiesOf(wire) == { wire[i] : i \in { j \in 1..Len(wire) : wire[j].t = "body" } }

Occurrences(wire, name) ==
    Cardinality({ i \in 1..Len(wire) : wire[i].t = "hdr" /\ wire[i].k = name })

HeaderValue(wire, name) ==
    { wire[i].v : i \in { j \in 1..Len(wire) : wire[j].t = "hdr" /\ wire[j].k = name } }

FixedNames == { FixedHeaders[i].k : i \in 1..3 }

ShutdownPrinted == \E i \in 1..Len(stdout) : stdout[i] = ShutdownLine

StartupAnnounced == \E i \in 1..Len(stdout) : stdout[i] = StartupLines[1]

StartupPcs == { "print1", "print2", "print3", "bind", "activate" }

\* What the URL path names under the document root, ".." collapsed.
Target(path) == Lookup(Config.directory \o normpath(<<>>, path.segs))

WellFormedGet(r) == r.method = "GET" /\ r.version = "HTTP/1.1"

(* -------------------------------- claims ------------------------------- *)

\* C1 (as claimed): every response the server emits, whatever its status and
\* whatever the request, carries all three fixed headers.
C1_Claim ==
    \A c \in Conns : Responded(c) =>
        \A k \in 1..3 : \E i \in 1..Len(conn[c].h.wire) : conn[c].h.wire[i] = FixedHeaders[k]

\* C2 (as claimed): an interrupt raised while serve_forever runs ends in the
\* shutdown message, exit status 0 and no listening socket.
C2_Claim ==
    (pc = "exited" /\ raisedAt # <<>> /\ raisedAt[1] = "serve") =>
        (ShutdownPrinted /\ exitStatus = 0 /\ sock # "listening")

\* C2 (amended): an interrupt delivered while serve_forever runs, idle or
\* handling a request, always leads to the exit of the process, and after the
\* exit nothing listens; the exit has printed the shutdown message and has
\* status 0 when no further interrupt was raised before it, and is the death
\* by KeyboardInterrupt (status 130) when one was raised in the except clause.
C2_Amended ==
    /\ ((pending /\ pc = "serve") ~> (pc = "exited"))
    /\ [](pc = "exited" => sock # "listening")
    /\ []((pc = "exited" /\ raisedAt = <<"serve">>) => (ShutdownPrinted /\ exitStatus = 0))
    /\ []((pc = "exited" /\ Len(raisedAt) = 2 /\ raisedAt[1] = "serve") => exitStatus = 130)

\* C2 witness: the process has exited with status 0 and the message after an
\* interrupt raised in serve_forever.
C2_Witness ==
    pc = "exited" /\ raisedAt = <<"serve">> /\ exitStatus = 0 /\ ShutdownPrinted /\ sock = "closed"

\* C3 (as claimed), for well-formed GET requests: a request whose path has
\* traversal segments never gets the contents of a file outside the document
\* root, and gets a 4xx status.
C3_Claim ==
    \A c \in Conns :
      (Responded(c) /\ HasTraversal(conn[c].req.path) /\ WellFormedGet(conn[c].req)) =>
        /\ \A b \in BodiesOf(conn[c].h.wire) :
               b.k = "file" => \E n \in Nodes : InsideRoot(n.p) /\ b.v = PathStr(n.p)
        /\ \E i \in 1..Len(conn[c].h.wire) :
               conn[c].h.wire[i].t \in { "status", "body" } /\ conn[c].h.wire[i].k \in { "400", "404" }

\* C3 (amended): a request whose path has traversal segments never gets the
\* contents of a file outside the document root; a well-formed GET gets 404
\* exactly when the path with ".." collapsed names nothing that can be served
\* under the document root, and otherwise what that path gets: 200 with the
\* file there, 304, or 301 for a directory.
C3_Amended ==
    \A c \in Conns : (Responded(c) /\ HasTraversal(conn[c].req.path)) =>
        /\ \A b \in BodiesOf(conn[c].h.wire) :
               b.k = "file" => \E n \in Nodes : InsideRoot(n.p) /\ b.v = PathStr(n.p)
        /\ WellFormedGet(conn[c].req) =>
               LET n == Target(conn[c].req.path)
                   served == \/ n.kind = "dir"
                             \/ n.kind = "file" /\ n.readable /\ ~conn[c].req.path.slash
               IN  /\ InsideRoot(n.p) \/ n.kind = "none"
                   /\ StatusOf(conn[c].h.wire) = "404" <=> ~served
                   /\ served => StatusOf(conn[c].h.wire) \in { "200", "301", "304" }

\* C3 witness: /demo/../app.js was answered 200 with the contents of app.js.
C3_Witness ==
    \E c \in Conns :
        /\ Responded(c)
        /\ conn[c].req.path.segs = << "demo", "..", "app.js" >>
        /\ StatusOf(conn[c].h.wire) = "200"
        /\ Body("file", "/srv/app.js") \in BodiesOf(conn[c].h.wire)

C5_Claim ==
    (pc = "exited" /\ exitStatus = 1 /\ server_address = <<>>) => ~StartupAnnounced

\* C6: a request that ends in an error (an error response, or an exception
\* in its handler) leaves the server in its accept loop, listening on the
\* same address, and every request is answered as a server that has handled
\* nothing answers it, whatever failed before.
C6_ErrorIsLocal ==
    /\ [](\A c \in Conns : (Handled(c) /\ conn[c].req # NoRequest) =>
              (conn[c].h.wire = Answer(conn[c].req) /\ conn[c].h.hbuf = <<>>))
    /\ [][ (\E c \in Conns :
               /\ conn[c].st = "handling"
               /\ conn'[c].st = "closed"
               /\ raisedAt' = raisedAt
               /\ conn[c].stage = "reading" \/ IsErrorResponse(conn[c].h.wire))
           => /\ pc' = "serve"
              /\ loop' = "select"
              /\ sock' = "listening"
              /\ server_address' = server_address
              /\ server_address = << Config.host, Config.port >> ]_vars

\* C6 witness: after an exchange that ended in an error, /app.js is answered
\* with 200 and the file.
C6_Witness ==
    /\ nerr >= 1
    /\ \E c \in Conns :
          /\ Handled(c)
          /\ StatusOf(conn[c].h.wire) = "200"
          /\ Body("file", "/srv/app.js") \in BodiesOf(conn[c].h.wire)

\* C7: in every header block sent, the three fixed headers are the last
\* three lines before the end of the block, in the order of the code; what
\* precedes them is the status line and the default headers, none of them a
\* fixed header, and what follows the end of the block is body only.
C7_FixedHeadersLast ==
    \A c \in Conns :
        LET w == conn[c].h.wire
        IN  \A e \in 1..Len(w) : w[e] = EndOfHeaders =>
              /\ e >= 5
              /\ << w[e - 3], w[e - 2], w[e - 1] >> = FixedHeaders
              /\ w[1].t = "status"
              /\ \A i \in 2..(e - 4) : w[i].t = "hdr" /\ w[i].k \notin FixedNames
              /\ \A i \in (e + 1)..Len(w) : w[i].t = "body"

\* C7 witness: a 200 response whose block holds the default headers
\* Content-type, Content-Length and Last-Modified.
C7_Witness ==
    \E c \in Conns :
        /\ Responded(c)
        /\ StatusOf(conn[c].h.wire) = "200"
        /\ Occurrences(conn[c].h.wire, "Last-Modified") = 1
        /\ \E e \in 1..Len(conn[c].h.wire) : conn[c].h.wire[e] = EndOfHeaders

\* C8: at most one connection is being handled; while one is, the loop is
\* inside process_request; and a queued connection is accepted only when no
\* connection is being handled.
C8_OneAtATime ==
    /\ [](Cardinality({ c \in Conns : conn[c].st = "handling" }) <= 1)
    /\ []((\E c \in Conns : conn[c].st = "handling") => loop = "process_request")
    /\ [][ \A d \in Conns :
             (conn[d].st = "queued" /\ conn'[d].st = "handling")
             => (\A c \in Conns : conn[c].st # "handling") /\ d = Head(backlog) ]_vars

\* C8 witness: a connection arrived while another is being handled, and waits.
C8_Witness ==
    \E c, d \in Conns : conn[c].st = "handling" /\ conn[d].st = "queued"

\* C9: the shutdown message and exit status 0 occur only after an interrupt
\* raised in serve_forever, the message at most once; an interrupt delivered
\* during the startup prints or the construction of the server is not
\* recovered: the process ends without the message and with another status.
C9_OnlyServeInterruptRecovered ==
    /\ (ShutdownPrinted \/ exitStatus = 0) => (raisedAt # <<>> /\ raisedAt[1] = "serve")
    /\ Cardinality({ i \in 1..Len(stdout) : stdout[i] = ShutdownLine }) <= 1
    /\ exitStatus = 0 => (pc = "exited" /\ ShutdownPrinted)
    /\ (raisedAt # <<>> /\ raisedAt[1] \in StartupPcs) =>
          (pc = "exited" /\ ~ShutdownPrinted /\ exitStatus = 130)

\* C9 witness: the process died of an interrupt delivered while the server
\* was being constructed, after the three startup lines.
C9_Witness ==
    pc = "exited" /\ raisedAt = <<"activate">> /\ stdout = StartupLines /\ exitStatus = 130

\* C10 (as claimed): in every response each of the three fixed headers
\* occurs exactly once, and end_headers ran exactly once.
C10_Claim ==
    \A c \in Conns : Responded(c) =>
        /\ \A name \in FixedNames : Occurrences(conn[c].h.wire, name) = 1
        /\ conn[c].h.ends = 1

====
